---- MODULE Spec2Model ----
(***************************************************************************)
(* Plan-and-dispatch orchestration of mabhisheksingh/AgenticAI.            *)
(*                                                                         *)
(* The model follows app/ai_core/agents/router.py (router and its          *)
(* helpers), app/ai_core/state_graph_object.py (the graph the router and   *)
(* the worker nodes run in) and                                            *)
(* app/services/impl/langgraph_service_impl.py (one chat request: thread   *)
(* lookup, graph streaming, the outbound frames).                          *)
(*                                                                         *)
(* A text is a sequence of word tokens; "" is the empty sequence.  A       *)
(* message is a record [type, content, tool_calls, by]: type is the        *)
(* LangChain class (human / ai / tool), tool_calls says whether the        *)
(* message carries tool calls, and by records which step appended it.      *)
(***************************************************************************)
EXTENDS Integers, Sequences, FiniteSets, TLC

\* ------------------------------------------------------------------ bounds
MaxPlan == 2          \* longest decomposer answer that is enumerated
MaxTurns == 2         \* chat requests accepted per behaviour
RecursionLimit == 5   \* graph supersteps per run (langgraph default is 25)
MaxThreads == 2       \* thread ids (uuids) a behaviour can draw
MaxRows == 2          \* rows the table session_threads grows to
MaxHistory == 11      \* messages a thread's stored history is drawn with
MaxQuery == 3         \* words of a query handed to the classifier
MaxTicks == 5         \* steps the clock makes
MaxRoutes == 3        \* sub-queries the routes of a worker node's state hold
MaxLabelWords == 11   \* words of a thread label
MaxWords == 21        \* words of a message content that is streamed

\* --------------------------------------------------------------- constants
MAX_MESSAGES == 10
SUMMARY_THRESHOLD == 6
RECENT_KEPT == 3
SPLIT_TTL == 300
AGENT_TTL == 600
SWEEP_INTERVAL == 600
SWEEP_MAX_AGE == 900
LABEL_WORDS == 10
CHUNK_WORDS == 10

\* seconds of one step of the clock
TickSeconds == 300

Req == {1, 2}
Workers == {"math", "code", "research"}

\* ------------------------------------------------------------------- texts
Blank == << >>

\* Pad is a run of whitespace where a text begins or ends
Pad == " "

\* str.strip(): the text without the whitespace around it
RECURSIVE Strip(_)
Strip(t) ==
    IF t = << >> THEN t
    ELSE IF Head(t) = Pad THEN Strip(Tail(t))
    ELSE IF t[Len(t)] = Pad THEN Strip(SubSeq(t, 1, Len(t) - 1))
    ELSE t

\* str.split(): the words of a text
Split(t) == SelectSeq(t, LAMBDA w : w # Pad)

\* number of characters of each word token
TokLen(w) ==
    CASE w = "hi" -> 2
      [] w = "hey" -> 3
      [] w = "i" -> 1
      [] w = "am" -> 2
      [] w = "bob" -> 3
      [] w = "python" -> 6
      [] w = "who" -> 3
      [] w = "pm" -> 2
      [] w = "and" -> 3
      [] w = "3*4" -> 3
      [] w = " " -> 1
      [] w = "3" -> 1
      [] w = "4" -> 1
      [] w = "x" -> 1
      [] w = "X" -> 1
      [] w = "Python" -> 6
      [] w = "classical" -> 9
      [] OTHER -> 4

RECURSIVE SumLen(_)
SumLen(t) == IF t = << >> THEN 0 ELSE TokLen(Head(t)) + SumLen(Tail(t))

\* len(query.strip()): the words and one blank between two of them
StripLen(t) == IF t = << >> THEN 0 ELSE SumLen(t) + Len(t) - 1

GreetWords == {"hi", "hello", "hey"}
CodeKeywords == {"code", "program", "function", "class", "algorithm", "java",
                 "python", "c++", "snippet", "implement", "script"}
MathTokens == {"3*4"}

\* re.search(r"\b(i am|i'm)\b", ql)
HasIAm(t) ==
    \/ \E i \in 1..Len(t) : t[i] = "i'm"
    \/ \E i \in 1..(Len(t) - 1) : t[i] = "i" /\ t[i + 1] = "am"

\* router.py 285-286: the fast-path condition on the stripped, lowered query
IsGreeting(t) ==
    /\ Strip(t) # Blank
    /\ \/ Strip(t)[1] \in GreetWords
       \/ HasIAm(Strip(t))

\* router.py 288-295: the canned reply, with the first word after "i am"
GreetingReply(t) ==
    IF \E i \in 1..(Len(t) - 2) : t[i] = "i" /\ t[i + 1] = "am"
    THEN LET i == CHOOSE j \in 1..(Len(t) - 2) :
                      /\ t[j] = "i" /\ t[j + 1] = "am"
                      /\ \A k \in 1..(j - 1) : ~(t[k] = "i" /\ t[k + 1] = "am")
         IN <<"nice", "to", "meet", "you", t[i + 2]>>
    ELSE <<"hi!", "how", "can", "i", "help">>

should_use_llm(query) ==
    IF query = Blank \/ StripLen(Strip(query)) < 3 THEN FALSE
    ELSE IF Len(Split(query)) = 1 THEN FALSE
    ELSE TRUE

\* str.lower() of a word
Lower(w) ==
    CASE w = "Python" -> "python"
      [] w = "X" -> "x"
      [] OTHER -> w

\* the code keywords that occur in a lower-case word (kw in word): a keyword
\* occurs in itself and in the words it is a part of
KeywordsIn(w) ==
    IF w \in CodeKeywords THEN {w}
    ELSE CASE w = "classical" -> {"class"}
           [] w = "javascript" -> {"java", "script"}
           [] OTHER -> { }

\* the words \d+ and the operator characters of the pattern at router.py 220
\* (the division sign, which is no ASCII character, is left out)
Numbers == {"3", "4"}
Operators == {"*", "+", "-", "/", "x", "^", "%"}

\* re.search(r"\d+\s*[*+\-/x^%]\s*\d+", subquery): a number, an operator and
\* a number in one word, or in three words with blanks between them
MatchesArithmetic(subquery) ==
    \/ \E i \in 1..Len(subquery) : subquery[i] \in MathTokens
    \/ \E i \in 1..(Len(subquery) - 2) :
          /\ subquery[i] \in Numbers
          /\ subquery[i + 1] \in Operators
          /\ subquery[i + 2] \in Numbers

\* a classifier that looks for arithmetic before it looks for keywords
pick_agent_for_subquery_MathFirst(subquery) ==
    IF MatchesArithmetic(subquery) THEN "math"
    ELSE IF \E i \in 1..Len(subquery) : KeywordsIn(Lower(subquery[i])) # { }
    THEN "code"
    ELSE "research"

\* router.py 198-223: what pick_agent_for_subquery computes when the cache
\* has no fresh entry for the sub-query.  The keywords of several words
\* ("write code", "source code", "solve using code") each contain "code".
pick_agent_for_subquery(subquery) ==
    IF \E i \in 1..Len(subquery) : KeywordsIn(Lower(subquery[i])) # { }
    THEN "code"
    ELSE IF MatchesArithmetic(subquery) THEN "math"
    ELSE "research"

\* the user messages and the decomposer's sub-questions that are enumerated
UserMsgs == { <<"hi">>, <<"python">>, <<"python", Pad>>,
              <<"who", "pm", "and", "3*4">> }
SubQs == { <<"calc", "3*4">>, <<"hey", "pm">> }

RECURSIVE SeqsUpTo(_, _)
SeqsUpTo(S, n) ==
    IF n = 0 THEN { << >> }
    ELSE LET shorter == SeqsUpTo(S, n - 1)
         IN shorter \cup { Append(s, x) : s \in { q \in shorter : Len(q) = n - 1 }, x \in S }

\* what llm_split_query can return: the model's lines, in its order
Splits == SeqsUpTo(SubQs, MaxPlan)


\* ------------------------------------------------------------------- labels
\* the words of the texts that are built word by word
WordNames ==
    <<"w1", "w2", "w3", "w4", "w5", "w6", "w7", "w8", "w9", "w10", "w11", "w12",
      "w13", "w14", "w15", "w16", "w17", "w18", "w19", "w20", "w21", "w22",
      "w23", "w24", "w25">>

\* a text of n words with whitespace before it, after it, or more than one
\* blank after its first word
Text(n, lead, trail, inner) ==
    (IF lead THEN <<Pad>> ELSE << >>)
    \o (IF n = 0 THEN << >>
        ELSE <<WordNames[1]>> \o (IF inner THEN <<Pad>> ELSE << >>)
             \o SubSeq(WordNames, 2, n))
    \o (IF trail THEN <<Pad>> ELSE << >>)

Texts(max) ==
    { Text(n, lead, trail, inner) : n \in 0..max, lead \in BOOLEAN,
                                     trail \in BOOLEAN, inner \in BOOLEAN }

\* a request body without the field thread_label
Missing == <<"missing">>

\* ChatRequest.py 49-84: the label a request is accepted with, or its
\* rejection.  ellipsis says that "..." is joined to the last word.
validate_thread_label(v) ==
    IF v = Missing \/ v = << >>
    THEN [rejected |-> TRUE, text |-> << >>, ellipsis |-> FALSE]
    ELSE LET words == Split(Strip(v))
         IN IF Len(words) > LABEL_WORDS
            THEN [rejected |-> FALSE, text |-> SubSeq(words, 1, LABEL_WORDS),
                  ellipsis |-> TRUE]
            ELSE [rejected |-> FALSE, text |-> Strip(v), ellipsis |-> FALSE]

\* ---------------------------------------------------------------- messages
\* id stands for the message's uuid: <<turn, superstep, node, k>>
Msg(type, content, tc, id) ==
    [type |-> type, content |-> content, tool_calls |-> tc, id |-> id]

Last(s) == s[Len(s)]

\* langgraph add_messages: a message whose id is present replaces that
\* message in place, any other message is appended
RECURSIVE add_messages(_, _)
add_messages(left, right) ==
    IF right = << >> THEN left
    ELSE LET m == Head(right)
             merged == IF \E i \in 1..Len(left) : left[i].id = m.id
                       THEN [i \in 1..Len(left) |->
                                IF left[i].id = m.id THEN m ELSE left[i]]
                       ELSE Append(left, m)
         IN add_messages(merged, Tail(right))

\* langgraph_service_impl.py 59-64
_is_blank_message(m) == Strip(m.content) = Blank

\* state_graph_object.py 77-102: drop the messages of an update that have
\* neither text nor tool calls, and set the content of those that have
\* text to that text, stripped
_sanitize_state_update(msgs) ==
    LET keep(m) == Strip(m.content) # Blank \/ m.tool_calls
        kept == SelectSeq(msgs, keep)
    IN [i \in 1..Len(kept) |->
           IF Strip(kept[i].content) = Blank THEN kept[i]
           ELSE [kept[i] EXCEPT !.content = Strip(@)]]

\* ---------------------------------------------------------------- the cache
\* _query_cache maps a key to (value, timestamp); times are seconds.
\* A key that takes the sub-query alone
CacheKey_NoPrefix(kind, query) == query

\* router.py 121 and 190: f"split_{query}" and f"agent_{subquery}"
CacheKey(kind, query) == <<kind, query>>

CachePut(c, key, value, t) ==
    [k \in (DOMAIN c) \cup {key} |->
        IF k = key THEN [value |-> value, timestamp |-> t] ELSE c[k]]

CacheKeep(c, keys) == [k \in keys |-> c[k]]

\* a sweep that removes entries older than 20 minutes
_cleanup_cache_LateCutoff(c, last_cleanup, t) ==
    IF t - last_cleanup > SWEEP_INTERVAL
    THEN [cache |-> CacheKeep(c, { k \in DOMAIN c :
                                     ~(c[k].timestamp < t - (SWEEP_MAX_AGE + TickSeconds)) }),
          last_cleanup |-> t, swept |-> TRUE]
    ELSE [cache |-> c, last_cleanup |-> last_cleanup, swept |-> FALSE]

\* router.py 43-60
_cleanup_cache(c, last_cleanup, t) ==
    IF t - last_cleanup > SWEEP_INTERVAL
    THEN [cache |-> CacheKeep(c, { k \in DOMAIN c :
                                     ~(c[k].timestamp < t - SWEEP_MAX_AGE) }),
          last_cleanup |-> t, swept |-> TRUE]
    ELSE [cache |-> c, last_cleanup |-> last_cleanup, swept |-> FALSE]

\* a lookup that still serves an entry at the age of ten minutes
CachedPick_ServesStale(c, last_cleanup, t, subquery) ==
    LET cl == _cleanup_cache(c, last_cleanup, t)
        key == CacheKey("agent", subquery)
        hit == /\ key \in DOMAIN cl.cache
               /\ t - cl.cache[key].timestamp <= AGENT_TTL
        result == IF hit THEN cl.cache[key].value
                  ELSE pick_agent_for_subquery(subquery)
    IN [result |-> result, hit |-> hit, swept |-> cl.swept,
        after_sweep |-> cl.cache,
        cache |-> IF hit THEN cl.cache ELSE CachePut(cl.cache, key, result, t),
        last_cleanup |-> cl.last_cleanup]

\* router.py 185-227, the whole call: the sweep, the lookup, and on a miss
\* the computation and the store
CachedPick(c, last_cleanup, t, subquery) ==
    LET cl == _cleanup_cache(c, last_cleanup, t)
        key == CacheKey("agent", subquery)
        hit == /\ key \in DOMAIN cl.cache
               /\ t - cl.cache[key].timestamp < AGENT_TTL
        result == IF hit THEN cl.cache[key].value
                  ELSE pick_agent_for_subquery(subquery)
    IN [result |-> result, hit |-> hit, swept |-> cl.swept,
        after_sweep |-> cl.cache,
        cache |-> IF hit THEN cl.cache ELSE CachePut(cl.cache, key, result, t),
        last_cleanup |-> cl.last_cleanup]

\* router.py 117-182, the whole call; answer is what the model returns when
\* it is asked
CachedSplit(c, last_cleanup, t, query, answer) ==
    LET cl == _cleanup_cache(c, last_cleanup, t)
        key == CacheKey("split", query)
        hit == /\ key \in DOMAIN cl.cache
               /\ t - cl.cache[key].timestamp < SPLIT_TTL
        result == IF hit THEN cl.cache[key].value ELSE answer
    IN [result |-> result, hit |-> hit, swept |-> cl.swept,
        after_sweep |-> cl.cache,
        cache |-> IF hit THEN cl.cache ELSE CachePut(cl.cache, key, result, t),
        last_cleanup |-> cl.last_cleanup]

\* ----------------------------------------------------------- summarization
\* A stored history of n messages, human and ai in turn; the message at
\* position blank, if there is one, has no text.
History(n, blank) ==
    [i \in 1..n |->
        Msg(IF i % 2 = 1 THEN "human" ELSE "ai",
            IF i = blank THEN Blank ELSE <<"m">>, FALSE, <<0, 0, "hist", i>>)]

\* what the summarization model does when it is asked: _get_llm raises
\* (the model's environment variable is not set), invoke raises, or the
\* model answers with a text
Summarizers ==
    { [kind |-> "no_model", content |-> ""],
      [kind |-> "invoke_raises", content |-> ""],
      [kind |-> "ok", content |-> "recap"],
      [kind |-> "ok", content |-> ""] }

\* router.py 260-262: the lines "<type>: <content>" of the older messages
OlderMessagesText(messages) ==
    [i \in 1..(Len(messages) - RECENT_KEPT) |->
        <<messages[i].type, messages[i].content>>]

\* messages[-3:]
Recent(messages) ==
    SubSeq(messages, Len(messages) - RECENT_KEPT + 1, Len(messages))

\* summarize_messages with a threshold test that trims a list of six
summarize_messages_TrimsAtThreshold(messages, llm) ==
    IF Len(messages) < SUMMARY_THRESHOLD
    THEN [messages |-> messages, summary |-> "", calls |-> 0, sent |-> << >>]
    ELSE CASE llm.kind = "no_model" ->
                [messages |-> Recent(messages), summary |-> "",
                 calls |-> 0, sent |-> << >>]
           [] llm.kind = "invoke_raises" ->
                [messages |-> Recent(messages), summary |-> "",
                 calls |-> 1, sent |-> OlderMessagesText(messages)]
           [] OTHER ->
                [messages |-> Recent(messages), summary |-> llm.content,
                 calls |-> 1, sent |-> OlderMessagesText(messages)]

\* router.py 247-270.  llm is what _get_llm() and the model do in this
\* call; calls counts the invocations of the model and sent is the text
\* the model was invoked with.
summarize_messages(messages, llm) ==
    IF Len(messages) <= SUMMARY_THRESHOLD
    THEN [messages |-> messages, summary |-> "", calls |-> 0, sent |-> << >>]
    ELSE CASE llm.kind = "no_model" ->
                [messages |-> Recent(messages), summary |-> "",
                 calls |-> 0, sent |-> << >>]
           [] llm.kind = "invoke_raises" ->
                [messages |-> Recent(messages), summary |-> "",
                 calls |-> 1, sent |-> OlderMessagesText(messages)]
           [] OTHER ->
                [messages |-> Recent(messages), summary |-> llm.content,
                 calls |-> 1, sent |-> OlderMessagesText(messages)]

\* the positional parameters of summarize_messages (router.py 247-249)
summarize_messages_params == 1

\* --------------------------------------------------------- the graph state
\* A field that is absent from the state has the value state.get() yields
\* for it: no messages, no plan, plan_active false; route "none" is absent.
EmptyState ==
    [messages |-> << >>, route |-> "none", routing_plan |-> << >>,
     pending_routes |-> << >>, plan_active |-> FALSE]

\* router.py 82-106: the content of the last human message, "" if none
extract_query(state) ==
    LET msgs == state.messages
        humans == { i \in 1..Len(msgs) : msgs[i].type = "human" }
    IN IF humans = { } THEN Blank
       ELSE msgs[CHOOSE i \in humans : \A j \in humans : j <= i].content

\* router.py 230-244
should_skip_llm_split(query, state) ==
    IF state.plan_active THEN TRUE
    ELSE IF state.pending_routes # << >> THEN TRUE
    ELSE IF ~should_use_llm(query) THEN TRUE
    ELSE FALSE

\* router.py 396-399: every sub-query with the agent picked for it
BuildPlan(subqueries) ==
    [i \in 1..Len(subqueries) |->
        <<pick_agent_for_subquery(subqueries[i]), subqueries[i]>>]

Agents(plan) == [i \in 1..Len(plan) |-> plan[i][1]]

\* the return statement reached when the plan is looked at before the
\* greeting pattern
RouterBranch_PlanFirst(state, subqueries) ==
    LET query == extract_query(state)
    IN IF state.plan_active /\ state.routing_plan = << >> THEN "synthesis"
       ELSE IF IsGreeting(query) THEN "greeting"
       ELSE IF /\ should_skip_llm_split(query, state)
               /\ state.routing_plan # << >> THEN "dispatch"
       ELSE IF /\ should_skip_llm_split(query, state)
               /\ state.plan_active THEN "exhausted"
       ELSE IF /\ should_skip_llm_split(query, state)
               /\ ~should_use_llm(query) THEN "trivial"
       ELSE IF subqueries = << >> THEN "fallback"
       ELSE "plan"

\* which return statement of router() a state reaches
RouterBranch(state, subqueries) ==
    LET query == extract_query(state)
    IN IF IsGreeting(query) THEN "greeting"
       ELSE IF state.plan_active /\ state.routing_plan = << >> THEN "synthesis"
       ELSE IF /\ should_skip_llm_split(query, state)
               /\ state.routing_plan # << >> THEN "dispatch"
       ELSE IF /\ should_skip_llm_split(query, state)
               /\ state.plan_active THEN "exhausted"
       ELSE IF /\ should_skip_llm_split(query, state)
               /\ ~should_use_llm(query) THEN "trivial"
       ELSE IF subqueries = << >> THEN "fallback"
       ELSE "plan"

\* a dispatch that leaves the agent it hands over to among the pending ones
Dispatch_PendingKeepsHead(state, plan, id) ==
    [state EXCEPT
        !.messages = Append(state.messages, Msg("human", plan[1][2], FALSE, id)),
        !.route = plan[1][1],
        !.routing_plan = Tail(plan),
        !.pending_routes = Agents(plan),
        !.plan_active = TRUE]

\* router.py 358-377 and 407-421: hand the head of a plan to its agent
Dispatch(state, plan, id) ==
    [state EXCEPT
        !.messages = Append(state.messages, Msg("human", plan[1][2], FALSE, id)),
        !.route = plan[1][1],
        !.routing_plan = Tail(plan),
        !.pending_routes = Agents(Tail(plan)),
        !.plan_active = TRUE]

\* router() with a greeting fast path that leaves routing_plan as it was
router_KeepsPlanOnGreeting(state, subqueries, id) ==
    LET query == extract_query(state)
        branch == RouterBranch(state, subqueries)
    IN CASE branch = "greeting" ->
              [state EXCEPT
                  !.messages = Append(state.messages,
                                      Msg("ai", GreetingReply(query), FALSE, id)),
                  !.route = "__end__",
                  !.plan_active = FALSE,
                  !.pending_routes = << >>]
         [] branch = "synthesis" ->
              [state EXCEPT
                  !.messages = Append(state.messages,
                                      Msg("ai", <<"final">>, FALSE, id)),
                  !.route = "__end__",
                  !.plan_active = FALSE]
         [] branch = "dispatch" -> Dispatch(state, state.routing_plan, id)
         [] branch = "exhausted" ->
              [state EXCEPT !.route = "__end__", !.pending_routes = << >>,
                            !.plan_active = FALSE]
         [] branch = "trivial" ->
              [state EXCEPT !.route = pick_agent_for_subquery(query),
                            !.pending_routes = << >>]
         [] branch = "fallback" ->
              [state EXCEPT !.route = "research", !.pending_routes = << >>]
         [] OTHER -> Dispatch(state, BuildPlan(subqueries), id)

\* router.py 274-421.  subqueries is the answer of llm_split_query (the
\* model's answer or the cached one), used only where the code asks for it;
\* id is the id of the message the call appends, if it appends one.
router(state, subqueries, id) ==
    LET query == extract_query(state)
        branch == RouterBranch(state, subqueries)
    IN CASE branch = "greeting" ->
              [state EXCEPT
                  !.messages = Append(state.messages,
                                      Msg("ai", GreetingReply(query), FALSE, id)),
                  !.route = "__end__",
                  !.plan_active = FALSE,
                  !.pending_routes = << >>,
                  !.routing_plan = << >>]
         [] branch = "synthesis" ->
              [state EXCEPT
                  !.messages = Append(state.messages,
                                      Msg("ai", <<"final">>, FALSE, id)),
                  !.route = "__end__",
                  !.plan_active = FALSE]
         [] branch = "dispatch" -> Dispatch(state, state.routing_plan, id)
         [] branch = "exhausted" ->
              [state EXCEPT !.route = "__end__", !.pending_routes = << >>,
                            !.plan_active = FALSE]
         [] branch = "trivial" ->
              [state EXCEPT !.route = pick_agent_for_subquery(query),
                            !.pending_routes = << >>]
         [] branch = "fallback" ->
              [state EXCEPT !.route = "research", !.pending_routes = << >>]
         [] OTHER -> Dispatch(state, BuildPlan(subqueries), id)

\* next(...) of an empty generator with the default None
NoMessage == Msg("none", Blank, FALSE, << >>)

\* router.py 327-330: what the final-response chain is invoked with, the
\* first human message of the history and then its tool messages
SynthesisInput(state) ==
    LET history == state.messages
        humans == { i \in 1..Len(history) : history[i].type = "human" }
        user_query == IF humans = { } THEN NoMessage
                      ELSE history[CHOOSE i \in humans : \A j \in humans : i <= j]
        isTool(m) == m.type = "tool"
    IN <<user_query>> \o SelectSeq(history, isTool)

\* state_graph_object.py 22-26
route_based_on_state(state) ==
    IF state.route = "none" THEN "research" ELSE state.route

\* state_graph_object.py 125-134: the destinations of the router's edge
RouterPathMap ==
    [math |-> "math", code |-> "code", research |-> "research",
     nlp_formatting |-> "nlp_formatting"]

\* langgraph tools_condition with the mapping of state_graph_object.py
\* 138-144: {"tools": "tools", END: "router"}
tools_condition(msgs) ==
    IF msgs # << >> /\ Last(msgs).tool_calls THEN "tools" ELSE "router"


\* --------------------------------------------------------- outbound frames
Frame(type, content, node) == [type |-> type, content |-> content, node |-> node]

MetaFrame == Frame("meta", Blank, "-")
UserFrame(message) == Frame("user", message, "-")
ProcessingFrame == Frame("processing", Blank, "-")
ErrorFrame == Frame("error", Blank, "-")
DoneFrame == Frame("[DONE]", Blank, "-")

\* the first frames with the acknowledgement sent ahead of the metadata
FirstFrames_AckFirst(message) == <<UserFrame(message), MetaFrame, ProcessingFrame>>

\* langgraph_service_impl.py 202-207: what a request sends before the graph
\* runs
FirstFrames(message) == <<MetaFrame, UserFrame(message), ProcessingFrame>>

\* langgraph_service_impl.py 185-207: the history a request hands to the
\* graph and the frames it sends before the graph runs.  Line 191 calls
\* summarize_messages with two positional arguments; a call whose arguments
\* are not as many as the parameters raises TypeError, here before the first
\* yield of the generator.
PrepareHistory(loaded, message, id) ==
    LET chat_messages == Append(loaded, Msg("human", message, FALSE, id))
        args == <<chat_messages, "LLMFactoryInterface">>
        notBlank(m) == ~_is_blank_message(m)
    IN IF Len(chat_messages) > MAX_MESSAGES /\ Len(args) # summarize_messages_params
       THEN [in |-> chat_messages, raised |-> TRUE, messages |-> << >>,
             frames |-> << >>, calls |-> 0]
       ELSE [in |-> chat_messages, raised |-> FALSE,
             messages |-> SelectSeq(chat_messages, notBlank),
             frames |-> FirstFrames(message), calls |-> 0]

\* a handler that reports the failure twice
FailureFrames_TwoErrors == <<ErrorFrame, ErrorFrame, DoneFrame>>

\* langgraph_service_impl.py 322-327: what a request sends when the graph
\* run raises
FailureFrames == <<ErrorFrame, DoneFrame>>

\* langgraph_service_impl.py 286-293: one token frame for every 10 words
\* and one for the rest
RECURSIVE Chunks(_, _)
Chunks(words, node) ==
    IF words = << >> THEN << >>
    ELSE IF Len(words) <= CHUNK_WORDS THEN << Frame("token", words, node) >>
    ELSE << Frame("token", SubSeq(words, 1, CHUNK_WORDS), node) >>
         \o Chunks(SubSeq(words, CHUNK_WORDS + 1, Len(words)), node)

\* token frames that take every run of whitespace for a word
TokenFrames_Unsplit(content, node) == Chunks(content, node)

\* langgraph_service_impl.py 283-293: the token frames of one content
TokenFrames(content, node) == Chunks(Split(content), node)

\* the frames for one node's update when a human message is echoed as a
\* frame of its own type
NodeFrames_EchoesHuman(node, updMsgs) ==
    IF updMsgs = << >> THEN << >>
    ELSE LET latest == Last(updMsgs)
         IN IF latest.type = "human"
            THEN << Frame("human", latest.content, node) >>
            ELSE (IF latest.tool_calls
                  THEN << Frame("tool_call", Blank, node) >> ELSE << >>)
                 \o TokenFrames(latest.content, node)

\* langgraph_service_impl.py 233-318: the frames for one node's update,
\* computed from the last message of the update
NodeFrames(node, updMsgs) ==
    IF updMsgs = << >> THEN << >>
    ELSE LET latest == Last(updMsgs)
         IN (IF latest.tool_calls
             THEN << Frame("tool_call", Blank, node) >> ELSE << >>)
            \o TokenFrames(latest.content, node)

\* --------------------------------------------------------------- the nodes
\* what a worker's agent run can add to the messages: an answer, or a tool
\* round that leaves nothing but the tool request behind once the blank
\* messages are dropped
WorkerOutputs(idOf(_)) ==
    { << Msg("ai", <<"ans">>, FALSE, idOf(1)) >>,
      << Msg("ai", Blank, TRUE, idOf(1)), Msg("tool", Blank, FALSE, idOf(2)),
         Msg("ai", Blank, FALSE, idOf(3)) >> }

\* state_graph_object.py 104-114: the update a worker node returns for the
\* messages its agent produced
WorkerUpdate(msgs, new) == _sanitize_state_update(msgs \o new)

Event(ev, agent, text, to) == [ev |-> ev, agent |-> agent, text |-> text, to |-> to]

\* -------------------------------------------------------- the thread store
Sessions == {"s1", "s2"}
ThreadIds == 1..MaxThreads
Labels == {"a", "b"}
None == 0

\* SqlLiteConfig.py 16-27: a row of table session_threads, with primary
\* key id and UNIQUE(session_id, thread_id)
Row(id, session_id, thread_id, thread_label, created_at) ==
    [id |-> id, session_id |-> session_id, thread_id |-> thread_id,
     thread_label |-> thread_label, created_at |-> created_at]

\* uuid.uuid4() for a row's primary key: a value no row has
NewRowId(rows) ==
    CHOOSE n \in 1..(Cardinality(rows) + 1) : \A r \in rows : r.id # n

\* uuid.uuid4() for a thread: the ids no row of the table names
UnusedThreadIds(rows) == { t \in ThreadIds : \A r \in rows : r.thread_id # t }

\* an INSERT on a table without the UNIQUE(session_id, thread_id) constraint
save_NoUniquePair(rows, session_id, thread_id, thread_label, id, created_at) ==
    IF \E r \in rows : r.id = id
    THEN rows
    ELSE rows \cup { Row(id, session_id, thread_id, thread_label, created_at) }

\* ThreadRepository.save 75-82: INSERT OR IGNORE; created_at is the
\* CURRENT_TIMESTAMP the column defaults to
save(rows, session_id, thread_id, thread_label, id, created_at) ==
    IF \E r \in rows : \/ r.id = id
                       \/ r.session_id = session_id /\ r.thread_id = thread_id
    THEN rows
    ELSE rows \cup { Row(id, session_id, thread_id, thread_label, created_at) }

\* a save that hands back what it was called with
SavedRecord_EchoesArguments(rows, session_id, thread_id, thread_label, id) ==
    [id |-> id, session_id |-> session_id, thread_id |-> thread_id,
     thread_label |-> thread_label]

\* ThreadRepository.save 84-104: the row the SELECT finds in the table after
\* the insert, or the arguments when it finds none
SavedRecord(rows, session_id, thread_id, thread_label, id) ==
    LET found == { r \in rows : r.session_id = session_id /\ r.thread_id = thread_id }
    IN IF found # { } THEN CHOOSE r \in found : TRUE
       ELSE [id |-> id, session_id |-> session_id, thread_id |-> thread_id,
             thread_label |-> thread_label]

\* a SELECT that matches on the thread id alone
get_by_session_and_thread_AnySession(rows, session_id, thread_id) ==
    { r \in rows : r.thread_id = thread_id }

\* ThreadRepository.get_by_session_and_thread: the rows the SELECT matches
get_by_session_and_thread(rows, session_id, thread_id) ==
    { r \in rows : r.session_id = session_id /\ r.thread_id = thread_id }

\* an UPDATE that matches on the thread id alone
rename_thread_label_AnySession(rows, session_id, thread_id, label) ==
    LET hit(r) == r.thread_id = thread_id
    IN [rows |-> { IF hit(r) THEN [r EXCEPT !.thread_label = label] ELSE r : r \in rows },
        rowcount |-> Cardinality({ r \in rows : hit(r) })]

\* ThreadRepository.rename_thread_label: the table after the UPDATE and
\* cur.rowcount
rename_thread_label(rows, session_id, thread_id, label) ==
    LET hit(r) == r.session_id = session_id /\ r.thread_id = thread_id
    IN [rows |-> { IF hit(r) THEN [r EXCEPT !.thread_label = label] ELSE r : r \in rows },
        rowcount |-> Cardinality({ r \in rows : hit(r) })]

\* ThreadRepository.delete_by_session_and_thread
delete_by_session_and_thread(rows, session_id, thread_id) ==
    LET hit(r) == r.session_id = session_id /\ r.thread_id = thread_id
    IN [rows |-> { r \in rows : ~hit(r) },
        rowcount |-> Cardinality({ r \in rows : hit(r) })]

\* ThreadRepository.delete_user_by_id
delete_user_by_id(rows, user_id) ==
    [rows |-> { r \in rows : r.session_id # user_id },
     rowcount |-> Cardinality({ r \in rows : r.session_id = user_id })]

\* a lookup that hands back the thread id it was given
load_and_update_thread_KeepsArgument(rows, thread_id, user_id, thread_label, uuid, created_at) ==
    IF thread_id = None
    THEN [rows |-> save(rows, user_id, uuid, thread_label, NewRowId(rows), created_at),
          raised |-> FALSE, thread_id |-> thread_id, read |-> None]
    ELSE IF get_by_session_and_thread(rows, user_id, thread_id) = { }
    THEN [rows |-> rows, raised |-> TRUE, thread_id |-> thread_id, read |-> None]
    ELSE [rows |-> rows, raised |-> FALSE, thread_id |-> thread_id, read |-> thread_id]

\* langgraph_service_impl.py 329-382: uuid is the value uuid.uuid4() gives,
\* read the thread graph.get_state is called for
load_and_update_thread(rows, thread_id, user_id, thread_label, uuid, created_at) ==
    IF thread_id = None
    THEN [rows |-> save(rows, user_id, uuid, thread_label, NewRowId(rows), created_at),
          raised |-> FALSE, thread_id |-> uuid, read |-> None]
    ELSE IF get_by_session_and_thread(rows, user_id, thread_id) = { }
    THEN [rows |-> rows, raised |-> TRUE, thread_id |-> thread_id, read |-> None]
    ELSE [rows |-> rows, raised |-> FALSE, thread_id |-> thread_id, read |-> thread_id]

\* a thread operation as the caller sees it: frames are the frames a chat
\* request sent up to its metadata frame, read is the thread whose snapshot
\* it asked the checkpointer for, before is the table it found
Op(op, session, thread, label, raised, affected, sent, read, before, returned) ==
    [op |-> op, session |-> session, thread |-> thread, label |-> label,
     raised |-> raised, affected |-> affected, frames |-> sent, read |-> read,
     before |-> before, returned |-> returned]

NoOp == Op("none", "-", None, "-", FALSE, 0, << >>, None, { }, None)

\* ------------------------------------------------- the worker node functions
\* custom_state.py 11-13: routes maps a sub-query to its agent, in the order
\* of insertion; sub-query i is the number i
RouteState(routes) ==
    [routes |-> routes, subquery_results |-> << >>, done_queries |-> << >>]

NoRoutes == RouteState(<< >>)

\* the dicts of at most MaxRoutes sub-queries: no key twice
RouteDicts ==
    { d \in SeqsUpTo((1..MaxRoutes) \X Workers, MaxRoutes) :
        \A i, j \in 1..Len(d) : d[i][1] = d[j][1] => i = j }

\* the text an agent's last message can hold
ResultTexts == {"ans", ""}

InList(x, list) == \E i \in 1..Len(list) : list[i] = x

\* the update both functions return for the query they processed
Processed(state, query, result_text) ==
    [state EXCEPT
        !.subquery_results = Append(@, [of |-> query, text |-> result_text]),
        !.done_queries = Append(@, query)]

\* a math node that does not look at done_queries
math_agent_node_IgnoresDone(state, result_text) ==
    LET isMath(e) == e[2] = "math"
        remaining == SelectSeq(state.routes, isMath)
    IN IF remaining = << >> THEN state
       ELSE Processed(state, remaining[1][1], result_text)

\* math_agent.py 30-57
math_agent_node(state, result_text) ==
    LET open(e) == ~InList(e[1], state.done_queries) /\ e[2] = "math"
        remaining == SelectSeq(state.routes, open)
    IN IF remaining = << >> THEN state
       ELSE Processed(state, remaining[1][1], result_text)

\* research_agent.py 28-61
research_agent_node(state, result_text) ==
    LET open(e) == ~InList(e[1], state.done_queries)
        remaining == SelectSeq(state.routes, open)
    IN IF remaining = << >> THEN state
       ELSE IF remaining[1][2] # "research" THEN state
       ELSE Processed(state, remaining[1][1], result_text)

\* a helper call as its caller sees it
NoCall == [op |-> "none"]

VARIABLES
    threadRow,   \* the ThreadRepository holds the row of the thread
    ckpt,        \* the thread's snapshot in the checkpointer
    turns,       \* chat requests accepted so far
    pc,          \* where each request's generator stands
    turnNo,      \* the number of each request's turn
    chat,        \* chat_messages of _execute_agent_impl
    run,         \* the channel values of each request's graph run
    nxt,         \* the nodes of the run's next superstep
    steps,       \* supersteps the run has made
    frames,      \* the frames each request has sent
    loopOwner,   \* the request that runs without having yielded, or 0
    rin,         \* the state the turn's last router() call was given
    ret,         \* the state the turn's last router() call returned
    planned,     \* the sub-queries the decomposer returned in each run
    log,         \* the router and worker steps of each run
    store,       \* the rows of table session_threads
    last,        \* the last thread operation: its arguments and its outcome
    cache,       \* router.py _query_cache: key -> [value, timestamp]
    lastCleanup, \* router.py _last_cache_cleanup
    now,         \* the clock, in seconds since the module was loaded
    call,        \* the last helper call: its arguments and its outcome
    nodeState    \* the state the worker node functions are called with

chatVars == <<threadRow, ckpt, turns, pc, turnNo, chat, run, nxt, steps, frames,
              loopOwner, rin, ret, planned, log>>
threadVars == <<store, last>>
cacheVars == <<cache, lastCleanup, now, call>>
vars == <<chatVars, threadVars, cacheVars, nodeState>>

InitState ==
    /\ threadRow = FALSE
    /\ ckpt = EmptyState
    /\ turns = 0
    /\ pc = [r \in Req |-> "idle"]
    /\ turnNo = [r \in Req |-> 0]
    /\ chat = [r \in Req |-> << >>]
    /\ run = [r \in Req |-> EmptyState]
    /\ nxt = [r \in Req |-> { }]
    /\ steps = [r \in Req |-> 0]
    /\ frames = [r \in Req |-> << >>]
    /\ loopOwner = 0
    /\ rin = EmptyState
    /\ ret = EmptyState
    /\ planned = [r \in Req |-> << >>]
    /\ log = [r \in Req |-> << >>]
    /\ store = { }
    /\ last = NoOp
    /\ cache = << >>
    /\ lastCleanup = 0
    /\ now = 0

Init ==
    /\ InitState
    /\ call = NoCall
    /\ nodeState = NoRoutes

Free(r) == pc[r] \in {"idle", "closed", "raised", "aborted"}
MayRun(r) == loopOwner \in {0, r}

\* langgraph_service_impl.py 329-356 and 169-207: a chat request up to its
\* first frames.  tid is the thread the request names: "new" for
\* thread_id = None, "t1" for the thread, "unknown" for an id without a row.
StartTurn(r, message, tid) ==
    /\ Free(r)
    /\ MayRun(r)
    /\ turns < MaxTurns
    /\ tid = "new" => ~threadRow
    /\ LET found == tid = "new" \/ (tid = "t1" /\ threadRow)
           loaded == IF tid = "new" THEN << >> ELSE ckpt.messages
           chat_messages ==
               Append(loaded, Msg("human", message, FALSE, <<turns + 1, 0, "user", 1>>))
           ok == found /\ Len(chat_messages) <= MAX_MESSAGES
           notBlank(m) == ~_is_blank_message(m)
       IN /\ threadRow' = (threadRow \/ tid = "new")
          /\ pc' = [pc EXCEPT ![r] = IF ok THEN "accepted" ELSE "raised"]
          /\ chat' = [chat EXCEPT ![r] =
                         IF ok THEN SelectSeq(chat_messages, notBlank) ELSE << >>]
          /\ frames' = [frames EXCEPT ![r] =
                           IF ok THEN FirstFrames(message)
                           ELSE << >>]
    /\ turns' = turns + 1
    /\ turnNo' = [turnNo EXCEPT ![r] = turns + 1]
    /\ run' = [run EXCEPT ![r] = EmptyState]
    /\ nxt' = [nxt EXCEPT ![r] = IF pc'[r] = "accepted" THEN {"router"} ELSE { }]
    /\ steps' = [steps EXCEPT ![r] = 0]
    /\ planned' = [planned EXCEPT ![r] = << >>]
    /\ log' = [log EXCEPT ![r] = << >>]
    /\ loopOwner' = 0
    /\ rin' = EmptyState
    /\ ret' = EmptyState
    /\ UNCHANGED ckpt
    /\ UNCHANGED <<threadVars, cacheVars, nodeState>>


\* a run that starts from the request's messages alone
RunState_FromRequest(r) ==
    IF pc[r] = "accepted"
    THEN [ckpt EXCEPT !.messages = chat[r]]
    ELSE run[r]

\* langgraph_service_impl.py 219-229: the run starts from the thread's
\* snapshot with the request's messages merged in
RunState(r) ==
    IF pc[r] = "accepted"
    THEN [ckpt EXCEPT !.messages = add_messages(ckpt.messages, chat[r])]
    ELSE run[r]

Running(r) ==
    /\ pc[r] \in {"accepted", "stream"}
    /\ MayRun(r)
    /\ steps[r] < RecursionLimit

NewId(r, node, k) == <<turnNo[r], steps[r] + 1, node, k>>

\* the decomposer is asked only on the path that reaches llm_split_query
SplitChoices(state) ==
    IF RouterBranch(state, << >>) = "fallback" THEN Splits ELSE { << >> }

RouterOut(r, subqueries) == router(RunState(r), subqueries, NewId(r, "router", 1))

RouterEvent(r, subqueries) ==
    LET in == RunState(r)
        out == RouterOut(r, subqueries)
        branch == RouterBranch(in, subqueries)
    IN Event(branch, out.route,
             IF branch \in {"dispatch", "plan"} THEN Last(out.messages).content
             ELSE extract_query(in),
             route_based_on_state(out))

RouterGhost(r, subqueries) ==
    /\ rin' = RunState(r)
    /\ ret' = RouterOut(r, subqueries)
    /\ planned' = [planned EXCEPT ![r] =
                      IF RouterBranch(RunState(r), subqueries) \in {"plan", "fallback"}
                      THEN subqueries ELSE @]
    /\ log' = [log EXCEPT ![r] = Append(@, RouterEvent(r, subqueries))]

\* a step that sent frames ends at a yield, where another request may run
Yielded(r, sent) == loopOwner' = IF sent = << >> THEN r ELSE 0

\* the run of a request ends: its frames and its log stay readable
EndRun(r, state) ==
    /\ pc' = [pc EXCEPT ![r] = state]
    /\ run' = [run EXCEPT ![r] = EmptyState]
    /\ chat' = [chat EXCEPT ![r] = << >>]
    /\ nxt' = [nxt EXCEPT ![r] = { }]
    /\ steps' = [steps EXCEPT ![r] = 0]
    /\ loopOwner' = 0

\* the snapshot after a superstep that failed: the input of a run that was
\* just starting is saved, nothing else is
FailedCkpt(r) == IF pc[r] = "accepted" THEN RunState(r) ELSE ckpt

\* state_graph_object.py 120-134 with router.py: a router superstep whose
\* route has a destination
RouterRoutes(r) ==
    /\ Running(r)
    /\ nxt[r] = {"router"}
    /\ \E subqueries \in SplitChoices(RunState(r)) :
          LET out == RouterOut(r, subqueries)
              dest == route_based_on_state(out)
              sent == NodeFrames("router", out.messages)
          IN /\ dest \in DOMAIN RouterPathMap
             /\ run' = [run EXCEPT ![r] = out]
             /\ ckpt' = out
             /\ nxt' = [nxt EXCEPT ![r] = {RouterPathMap[dest]}]
             /\ frames' = [frames EXCEPT ![r] = @ \o sent]
             /\ Yielded(r, sent)
             /\ RouterGhost(r, subqueries)
    /\ pc' = [pc EXCEPT ![r] = "stream"]
    /\ steps' = [steps EXCEPT ![r] = @ + 1]
    /\ chat' = [chat EXCEPT ![r] = << >>]
    /\ UNCHANGED <<threadRow, turns, turnNo>>
    /\ UNCHANGED <<threadVars, cacheVars, nodeState>>

\* a router superstep whose route has no destination in the path map: the
\* lookup raises, the superstep's writes are not applied, and the service
\* sends an error frame and [DONE] (langgraph_service_impl.py 322-327)
RouterEnds(r) ==
    /\ Running(r)
    /\ nxt[r] = {"router"}
    /\ \E subqueries \in SplitChoices(RunState(r)) :
          /\ route_based_on_state(RouterOut(r, subqueries)) \notin DOMAIN RouterPathMap
          /\ RouterGhost(r, subqueries)
    /\ ckpt' = FailedCkpt(r)
    /\ frames' = [frames EXCEPT ![r] = @ \o FailureFrames]
    /\ EndRun(r, "closed")
    /\ UNCHANGED <<threadRow, turns, turnNo>>
    /\ UNCHANGED <<threadVars, cacheVars, nodeState>>

\* state_graph_object.py 104-114 and 138-144: the worker the router chose
\* runs alone and its edge leads to the tools or back to the router
WorkerStep(r) ==
    /\ Running(r)
    /\ \E w \in Workers :
          /\ nxt[r] = {w}
          /\ LET idOf(k) == NewId(r, w, k)
             IN \E new \in WorkerOutputs(idOf) :
                   LET upd == WorkerUpdate(run[r].messages, new)
                       msgs == add_messages(run[r].messages, upd)
                       sent == NodeFrames(w, upd)
                   IN /\ run' = [run EXCEPT ![r].messages = msgs]
                      /\ ckpt' = run'[r]
                      /\ nxt' = [nxt EXCEPT ![r] = {tools_condition(msgs)}]
                      /\ frames' = [frames EXCEPT ![r] = @ \o sent]
                      /\ Yielded(r, sent)
                      /\ log' = [log EXCEPT ![r] =
                                    Append(@, Event("worker", w, Blank, tools_condition(msgs)))]
    /\ steps' = [steps EXCEPT ![r] = @ + 1]
    /\ UNCHANGED <<threadRow, turns, pc, turnNo, chat, rin, ret, planned>>
    /\ UNCHANGED <<threadVars, cacheVars, nodeState>>

\* langgraph ToolNode for the tool calls of the last message, and
\* state_graph_object.py 146-148: its three outgoing edges
ToolsStep(r) ==
    /\ Running(r)
    /\ nxt[r] = {"tools"}
    /\ LET result == << Msg("tool", <<"res">>, FALSE, NewId(r, "tools", 1)) >>
           sent == NodeFrames("tools", result)
       IN /\ run' = [run EXCEPT ![r].messages = add_messages(@, result)]
          /\ ckpt' = run'[r]
          /\ frames' = [frames EXCEPT ![r] = @ \o sent]
          /\ Yielded(r, sent)
    /\ nxt' = [nxt EXCEPT ![r] = {"code", "research", "math"}]
    /\ steps' = [steps EXCEPT ![r] = @ + 1]
    /\ log' = [log EXCEPT ![r] = Append(@, Event("tools", "-", Blank, "workers"))]
    /\ UNCHANGED <<threadRow, turns, pc, turnNo, chat, rin, ret, planned>>
    /\ UNCHANGED <<threadVars, cacheVars, nodeState>>


\* state_graph_object.py 146-148: after the tools node all three workers
\* are triggered and run in the same superstep, each on the same messages.
\* Their updates are applied in the order of the node names; the frames of
\* one superstep are recorded in that order too (the stream carries them in
\* the order the nodes finish, which no property stated here depends on).
FanOut(r) ==
    /\ Running(r)
    /\ nxt[r] = {"code", "research", "math"}
    /\ LET idc(k) == NewId(r, "code", k)
           idm(k) == NewId(r, "math", k)
           idr(k) == NewId(r, "research", k)
           msgs == run[r].messages
       IN \E nc \in WorkerOutputs(idc), nm \in WorkerOutputs(idm),
             nr \in WorkerOutputs(idr) :
             LET upd == [code |-> WorkerUpdate(msgs, nc),
                         math |-> WorkerUpdate(msgs, nm),
                         research |-> WorkerUpdate(msgs, nr)]
                 dest == [w \in Workers |-> tools_condition(add_messages(msgs, upd[w]))]
                 all == add_messages(add_messages(add_messages(msgs, upd.code),
                                                  upd.math), upd.research)
                 sentOf == [w \in Workers |-> NodeFrames(w, upd[w])]
             IN /\ run' = [run EXCEPT ![r].messages = all]
                /\ ckpt' = run'[r]
                /\ nxt' = [nxt EXCEPT ![r] = { dest[w] : w \in Workers }]
                /\ frames' = [frames EXCEPT ![r] =
                                 @ \o sentOf.code \o sentOf.math \o sentOf.research]
                /\ Yielded(r, sentOf.code \o sentOf.math \o sentOf.research)
                /\ log' = [log EXCEPT ![r] =
                              @ \o << Event("worker", "code", Blank, dest.code),
                                      Event("worker", "math", Blank, dest.math),
                                      Event("worker", "research", Blank, dest.research) >>]
    /\ steps' = [steps EXCEPT ![r] = @ + 1]
    /\ UNCHANGED <<threadRow, turns, pc, turnNo, chat, rin, ret, planned>>
    /\ UNCHANGED <<threadVars, cacheVars, nodeState>>

\* langgraph ToolNode run beside the router: when the last message is the
\* tool request it answers it; otherwise the installed version decides:
\* it raises, or it serves the tool calls of the latest ai message
ToolNodeResults(msgs, id) ==
    LET ais == { i \in 1..Len(msgs) : msgs[i].type = "ai" }
        latest == msgs[CHOOSE i \in ais : \A j \in ais : j <= i]
        answer == << Msg("tool", <<"res">>, FALSE, id) >>
    IN IF Last(msgs).type = "ai" /\ Last(msgs).tool_calls
       THEN { [ok |-> TRUE, msgs |-> answer] }
       ELSE { [ok |-> FALSE, msgs |-> << >>],
              [ok |-> TRUE, msgs |-> IF ais # { } /\ latest.tool_calls
                                     THEN answer ELSE << >>] }

\* the router and the tools node in one superstep: one worker of a fan-out
\* asked for a tool while another one finished
RouterTools(r) ==
    /\ Running(r)
    /\ nxt[r] = {"router", "tools"}
    /\ \E subqueries \in SplitChoices(run[r]),
          tool \in ToolNodeResults(run[r].messages, NewId(r, "tools", 1)) :
          LET out == RouterOut(r, subqueries)
              dest == route_based_on_state(out)
              sentOf == [router |-> NodeFrames("router", out.messages),
                         tools |-> NodeFrames("tools", tool.msgs)]
          IN /\ dest \in DOMAIN RouterPathMap
             /\ tool.ok
             /\ run' = [run EXCEPT ![r] =
                           [out EXCEPT !.messages = add_messages(@, tool.msgs)]]
             /\ ckpt' = run'[r]
             /\ nxt' = [nxt EXCEPT ![r] = {RouterPathMap[dest], "code", "research", "math"}]
             /\ frames' = [frames EXCEPT ![r] = @ \o sentOf.router \o sentOf.tools]
             /\ Yielded(r, sentOf.router \o sentOf.tools)
             /\ RouterGhost(r, subqueries)
    /\ steps' = [steps EXCEPT ![r] = @ + 1]
    /\ UNCHANGED <<threadRow, turns, pc, turnNo, chat>>
    /\ UNCHANGED <<threadVars, cacheVars, nodeState>>

\* the same superstep when the router's route has no destination or the
\* tools node raises
RouterToolsFails(r) ==
    /\ Running(r)
    /\ nxt[r] = {"router", "tools"}
    /\ \E subqueries \in SplitChoices(run[r]),
          tool \in ToolNodeResults(run[r].messages, NewId(r, "tools", 1)) :
          /\ \/ route_based_on_state(RouterOut(r, subqueries)) \notin DOMAIN RouterPathMap
             \/ ~tool.ok
          /\ RouterGhost(r, subqueries)
    /\ frames' = [frames EXCEPT ![r] = @ \o FailureFrames]
    /\ EndRun(r, "closed")
    /\ UNCHANGED <<threadRow, ckpt, turns, turnNo>>
    /\ UNCHANGED <<threadVars, cacheVars, nodeState>>

\* router.py 393-395 with llm_split_query 117-163: the model call of the
\* decomposer raises; nothing catches it, so the router node raises and the
\* run ends as any failed superstep does
RouterRaises(r) ==
    /\ Running(r)
    /\ "router" \in nxt[r]
    /\ RouterBranch(RunState(r), << >>) = "fallback"
    /\ rin' = RunState(r)
    /\ log' = [log EXCEPT ![r] =
                  Append(@, Event("split_raised", "-", extract_query(RunState(r)), "-"))]
    /\ ckpt' = FailedCkpt(r)
    /\ frames' = [frames EXCEPT ![r] = @ \o FailureFrames]
    /\ EndRun(r, "closed")
    /\ UNCHANGED <<threadRow, turns, turnNo, ret, planned>>
    /\ UNCHANGED <<threadVars, cacheVars, nodeState>>

\* state_graph_object.py 104-114: the agent of a worker node raises (its
\* model call fails); the wrapper has no handler, so the node raises and
\* the run ends as any failed superstep does
WorkerRaises(r) ==
    /\ Running(r)
    /\ \E w \in nxt[r] \cap Workers :
          log' = [log EXCEPT ![r] = Append(@, Event("worker_raised", w, Blank, "-"))]
    /\ frames' = [frames EXCEPT ![r] = @ \o FailureFrames]
    /\ EndRun(r, "closed")
    /\ UNCHANGED <<threadRow, ckpt, turns, turnNo, rin, ret, planned>>
    /\ UNCHANGED <<threadVars, cacheVars, nodeState>>

\* langgraph's recursion limit: the run raises when it has used its
\* supersteps and nodes are still due
RecursionError(r) ==
    /\ pc[r] = "stream"
    /\ MayRun(r)
    /\ steps[r] = RecursionLimit
    /\ frames' = [frames EXCEPT ![r] = @ \o FailureFrames]
    /\ EndRun(r, "closed")
    /\ UNCHANGED <<threadRow, ckpt, turns, turnNo, rin, ret, planned, log>>
    /\ UNCHANGED <<threadVars, cacheVars, nodeState>>

\* the process stops or the client goes away while the request is being
\* served: what the checkpointer holds stays
Crash(r) ==
    /\ pc[r] \in {"accepted", "stream"}
    /\ MayRun(r)
    /\ EndRun(r, "aborted")
    /\ UNCHANGED <<threadRow, ckpt, turns, turnNo, frames, rin, ret, planned, log>>
    /\ UNCHANGED <<threadVars, cacheVars, nodeState>>

Tids == {"new", "t1", "unknown"}

Step(R, messages) ==
    \/ \E r \in R, message \in messages, tid \in Tids : StartTurn(r, message, tid)
    \/ \E r \in R : RouterRoutes(r)
    \/ \E r \in R : RouterEnds(r)
    \/ \E r \in R : WorkerStep(r)
    \/ \E r \in R : ToolsStep(r)
    \/ \E r \in R : FanOut(r)
    \/ \E r \in R : RouterTools(r)
    \/ \E r \in R : RouterToolsFails(r)
    \/ \E r \in R : WorkerRaises(r)
    \/ \E r \in R : RecursionError(r)
    \/ \E r \in R : Crash(r)

\* one request at a time
Next ==
    \/ Step({1}, UserMsgs)
    \/ RouterRaises(1)
Spec == Init /\ [][Next]_vars

\* the requests the server accepts are served by one event loop, each of
\* them running until its next frame; their messages are single words,
\* which never reach the decomposer
ConcMsgs == { <<"hi">>, <<"python">> }
NextConc == Step(Req, ConcMsgs)
SpecConc == Init /\ [][NextConc]_vars

\* langgraph_service_impl.py 179-203: a chat request up to its metadata
\* frame.  thread_id is None or a thread id; long says that the history
\* loaded for the thread, with the new message, is longer than MAX_MESSAGES
\* (the summarize_messages call at 191 then raises).
ChatRequest(user_id, thread_id, thread_label) ==
    /\ \E uuid \in IF thread_id = None THEN UnusedThreadIds(store) ELSE {None},
          long \in IF thread_id = None THEN {FALSE} ELSE BOOLEAN :
          LET res == load_and_update_thread(store, thread_id, user_id, thread_label, uuid, now)
              raised == res.raised \/ long
              sent == IF raised THEN << >>
                      ELSE << [threadId |-> res.thread_id, userId |-> user_id] >>
          IN /\ Cardinality(res.rows) <= MaxRows
             /\ store' = res.rows
             /\ last' = Op("chat", user_id, thread_id, thread_label, raised, 0, sent, res.read, store, None)
    /\ UNCHANGED <<chatVars, cacheVars, nodeState>>

\* ThreadRepository.save called with a thread id of the caller's choice
\* (AgentService.py 91); the row id is the uuid4 of line 73
SaveThread(session_id, thread_id, thread_label) ==
    /\ Cardinality(save(store, session_id, thread_id, thread_label, NewRowId(store), now)) <= MaxRows
    /\ store' = save(store, session_id, thread_id, thread_label, NewRowId(store), now)
    /\ last' = Op("save", session_id, thread_id, thread_label, FALSE, 0, << >>, None, store,
                  SavedRecord(store', session_id, thread_id, thread_label, NewRowId(store)))
    /\ UNCHANGED <<chatVars, cacheVars, nodeState>>

\* UserRouter.rename_thread_label 137-180
RenameThread(user_id, threadId, label) ==
    /\ LET res == rename_thread_label(store, user_id, threadId, label)
       IN /\ store' = res.rows
          /\ last' = Op("rename", user_id, threadId, label, FALSE, res.rowcount, << >>, None, store, None)
    /\ UNCHANGED <<chatVars, cacheVars, nodeState>>

\* UserRouter.delete_thread_by_session_and_id 128-134
DeleteThread(user_id, thread_id) ==
    /\ LET res == delete_by_session_and_thread(store, user_id, thread_id)
       IN /\ store' = res.rows
          /\ last' = Op("delete", user_id, thread_id, "-", FALSE, res.rowcount, << >>, None, store, None)
    /\ UNCHANGED <<chatVars, cacheVars, nodeState>>

\* UserService.delete_user_by_id 44-59
DeleteUser(user_id) ==
    /\ LET res == delete_user_by_id(store, user_id)
       IN /\ store' = res.rows
          /\ last' = Op("delete_user", user_id, None, "-", FALSE, res.rowcount, << >>, None, store, None)
    /\ UNCHANGED <<chatVars, cacheVars, nodeState>>

\* UserService.get_thread_by_id 127-161: NotFoundError when the session
\* has no row for the thread, else the thread's snapshot is read
GetThread(user_id, thread_id) ==
    /\ LET found == get_by_session_and_thread(store, user_id, thread_id) # { }
       IN last' = Op("get", user_id, thread_id, "-", ~found, 0, << >>,
                     IF found THEN thread_id ELSE None, store, None)
    /\ UNCHANGED <<store, chatVars, cacheVars, nodeState>>

NextThreads ==
    \/ \E user_id \in Sessions, thread_id \in ThreadIds \cup {None}, label \in Labels :
          ChatRequest(user_id, thread_id, label)
    \/ \E user_id \in Sessions, thread_id \in ThreadIds, label \in Labels :
          SaveThread(user_id, thread_id, label)
    \/ \E user_id \in Sessions, thread_id \in ThreadIds, label \in Labels :
          RenameThread(user_id, thread_id, label)
    \/ \E user_id \in Sessions, thread_id \in ThreadIds : DeleteThread(user_id, thread_id)
    \/ \E user_id \in Sessions : DeleteUser(user_id)
    \/ \E user_id \in Sessions, thread_id \in ThreadIds : GetThread(user_id, thread_id)

SpecThreads == Init /\ [][NextThreads]_vars

\* time passes
Tick ==
    /\ now < MaxTicks * TickSeconds
    /\ now' = now + TickSeconds
    /\ UNCHANGED <<cache, lastCleanup, call>>
    /\ UNCHANGED <<chatVars, threadVars, nodeState>>

\* the repository's save, rename and delete on one thread id of two
\* sessions, while time passes
NextRepo ==
    \/ Tick
    \/ \E session_id \in Sessions, label \in Labels : SaveThread(session_id, 1, label)
    \/ \E session_id \in Sessions, label \in Labels : RenameThread(session_id, 1, label)
    \/ \E session_id \in Sessions : DeleteThread(session_id, 1)

SpecRepo == Init /\ [][NextRepo]_vars


\* summarize_messages called on a history
Summarize(n, blank, llm) ==
    /\ LET messages == History(n, blank)
           res == summarize_messages(messages, llm)
       IN call' = [op |-> "summarize", in |-> messages, llm |-> llm,
                   out |-> res.messages, summary |-> res.summary,
                   calls |-> res.calls, sent |-> res.sent,
                   raised |-> FALSE, frames |-> << >>]
    /\ UNCHANGED <<cache, lastCleanup, now>>
    /\ UNCHANGED <<chatVars, threadVars, nodeState>>

\* langgraph_service_impl.py 179-207: a chat request on a thread whose stored
\* history has n messages, up to its first frames
ChatPrelude(n, blank, message, llm) ==
    /\ LET res == PrepareHistory(History(n, blank), message, <<1, 0, "user", 1>>)
       IN call' = [op |-> "chat", in |-> res.in, llm |-> llm,
                   out |-> res.messages, summary |-> "",
                   calls |-> res.calls, sent |-> << >>,
                   raised |-> res.raised, frames |-> res.frames]
    /\ UNCHANGED <<cache, lastCleanup, now>>
    /\ UNCHANGED <<chatVars, threadVars, nodeState>>

NextSummary ==
    \/ \E n \in 0..MaxHistory, blank \in {0, 2}, llm \in Summarizers :
          Summarize(n, blank, llm)
    \/ \E n \in 0..(MaxHistory - 1), blank \in {0, 2}, message \in UserMsgs,
          llm \in Summarizers :
          ChatPrelude(n, blank, message, llm)

SpecSummary == Init /\ [][NextSummary]_vars


\* the queries the classifier is applied to
Words == {"python", "Python", "classical", "3*4", "3", "x", "X", "4", "pm", "hi"}
Queries == SeqsUpTo(Words, MaxQuery) \ { << >> }

\* a query is handed to the classifier or to the router
InitClassify ==
    /\ InitState
    /\ call \in { [op |-> "input", q |-> q] : q \in Queries }
    /\ nodeState = NoRoutes

\* pick_agent_for_subquery on a sub-query the cache does not hold
Classify ==
    /\ call.op = "input"
    /\ call' = [op |-> "classify", q |-> call.q,
                result |-> CachedPick(cache, lastCleanup, now, call.q).result]
    /\ UNCHANGED <<cache, lastCleanup, now>>
    /\ UNCHANGED <<chatVars, threadVars, nodeState>>

\* router() on a fresh thread whose decomposition is the query itself
RouteFresh ==
    /\ call.op = "input"
    /\ LET q == call.q
           state == [EmptyState EXCEPT
                        !.messages = <<Msg("human", q, FALSE, <<1, 0, "user", 1>>)>>]
           res == router(state, <<q>>, <<1, 1, "router", 1>>)
       IN call' = [op |-> "route", q |-> q,
                   branch |-> RouterBranch(state, <<q>>),
                   result |-> res.route]
    /\ UNCHANGED <<cache, lastCleanup, now>>
    /\ UNCHANGED <<chatVars, threadVars, nodeState>>

NextClassify ==
    \/ Classify
    \/ RouteFresh

SpecClassify == InitClassify /\ [][NextClassify]_vars

\* the sub-queries and queries the cache is exercised with
CacheQs == { <<"Python", "tips">>, <<"3", "x", "4">> }
Answers == { <<>>, << <<"3", "x", "4">> >> }

\* the (sub-query, capability) pairs pick_agent_for_subquery has returned
Returned == IF call.op \in {"pick", "split"} THEN call.returned ELSE { }

PickAgent(q) ==
    /\ LET res == CachedPick(cache, lastCleanup, now, q)
       IN /\ cache' = res.cache
          /\ lastCleanup' = res.last_cleanup
          /\ call' = [op |-> "pick", q |-> q, result |-> res.result,
                      hit |-> res.hit, swept |-> res.swept,
                      after_sweep |-> res.after_sweep, at |-> now,
                      since |-> now - lastCleanup,
                      known |-> \E p \in Returned : p[1] = q,
                      returned |-> Returned \cup {<<q, res.result>>}]
    /\ UNCHANGED now
    /\ UNCHANGED <<chatVars, threadVars, nodeState>>

SplitQuery(q, answer) ==
    /\ LET res == CachedSplit(cache, lastCleanup, now, q, answer)
       IN /\ cache' = res.cache
          /\ lastCleanup' = res.last_cleanup
          /\ call' = [op |-> "split", q |-> q, result |-> res.result,
                      hit |-> res.hit, swept |-> res.swept,
                      after_sweep |-> res.after_sweep, at |-> now,
                      since |-> now - lastCleanup,
                      known |-> FALSE,
                      returned |-> Returned]
    /\ UNCHANGED now
    /\ UNCHANGED <<chatVars, threadVars, nodeState>>

NextCache ==
    \/ Tick
    \/ \E q \in CacheQs : PickAgent(q)
    \/ \E answer \in Answers : SplitQuery(<<"3", "x", "4">>, answer)

SpecCache == Init /\ [][NextCache]_vars


\* the worker node functions are called on a state whose routes a caller
\* has filled in
InitWorkers ==
    /\ InitState
    /\ call = NoCall
    /\ nodeState \in { RouteState(d) : d \in RouteDicts }

MathAgentNode ==
    /\ \E result_text \in ResultTexts :
          nodeState' = math_agent_node(nodeState, result_text)
    /\ UNCHANGED <<chatVars, threadVars, cacheVars>>

ResearchAgentNode ==
    /\ \E result_text \in ResultTexts :
          nodeState' = research_agent_node(nodeState, result_text)
    /\ UNCHANGED <<chatVars, threadVars, cacheVars>>

NextWorkers ==
    \/ MathAgentNode
    \/ ResearchAgentNode

SpecWorkers == InitWorkers /\ [][NextWorkers]_vars


\* a request body arrives with a thread label, or without one
InitLabel ==
    /\ InitState
    /\ call \in { [op |-> "label", v |-> v] : v \in Texts(MaxLabelWords) \cup {Missing} }
    /\ nodeState = NoRoutes

\* ChatRequest.validate_thread_label on the label of a request body
ValidateLabel ==
    /\ call.op = "label"
    /\ LET res == validate_thread_label(call.v)
       IN call' = [op |-> "validated", v |-> call.v, rejected |-> res.rejected,
                   text |-> res.text, ellipsis |-> res.ellipsis]
    /\ UNCHANGED <<cache, lastCleanup, now, nodeState>>
    /\ UNCHANGED <<chatVars, threadVars>>

SpecLabel == InitLabel /\ [][ValidateLabel]_vars

\* a node's update ends with a message of some content
InitStream ==
    /\ InitState
    /\ call \in { [op |-> "content", content |-> c] : c \in Texts(MaxWords) }
    /\ nodeState = NoRoutes

\* langgraph_service_impl.py 233-293: the frames sent for an update whose
\* last message has that content
StreamContent ==
    /\ call.op = "content"
    /\ call' = [op |-> "streamed", content |-> call.content,
                frames |-> NodeFrames("code", << Msg("ai", call.content, FALSE,
                                                     <<1, 1, "code", 1>>) >>)]
    /\ UNCHANGED <<cache, lastCleanup, now, nodeState>>
    /\ UNCHANGED <<chatVars, threadVars>>

SpecStream == InitStream /\ [][StreamContent]_vars

\* ------------------------------------------------------------- properties
RouterBranches ==
    {"greeting", "synthesis", "dispatch", "exhausted", "trivial", "fallback", "plan"}

IsRouterEvent(e) == e.ev \in RouterBranches
IsDispatch(e) == e.ev \in {"dispatch", "plan"}

Count(s, P(_)) == Cardinality({ i \in 1..Len(s) : P(s[i]) })

\* the router steps of a run that follow the step that built its plan
ReEntries(r) ==
    LET built == { i \in 1..Len(log[r]) : log[r][i].ev = "plan" }
    IN Cardinality({ j \in 1..Len(log[r]) :
                       /\ IsRouterEvent(log[r][j])
                       /\ \E i \in built : i < j })

\* C1: Plan exhaustion.  When router() has built a plan of N >= 1
\* sub-queries in a turn and has been re-entered N times after worker
\* completions, the state it returned has plan_active false and an empty
\* routing_plan, and the synthesis branch has run exactly once in the turn.
C1_PlanExhaustion ==
    \A r \in Req :
        (/\ Count(log[r], LAMBDA e : e.ev = "plan") = 1
         /\ ReEntries(r) = Len(planned[r]))
        => /\ ~ret.plan_active
           /\ ret.routing_plan = << >>
           /\ Count(log[r], LAMBDA e : e.ev = "synthesis") = 1

\* C2: Dispatch order.  Within one turn the sub-queries are dispatched in
\* the order the decomposer returned them, and between the dispatch of a
\* sub-query and the dispatch of the next one the worker the first was
\* routed to has finished (its edge led back to the router).
C2_DispatchOrder ==
    \A r \in Req :
        LET at == { i \in 1..Len(log[r]) : IsDispatch(log[r][i]) }
        IN /\ \A i, j \in at :
                 i < j => \E k \in (i + 1)..(j - 1) :
                             /\ log[r][k].ev = "worker"
                             /\ log[r][k].agent = log[r][i].agent
                             /\ log[r][k].to = "router"
           /\ (Len(log[r]) > 0 /\ log[r][1].ev = "plan")
              => \A i \in at :
                    LET n == Cardinality({ j \in at : j <= i })
                    IN n <= Len(planned[r]) /\ log[r][i].text = planned[r][n]

\* C3: Trivial single dispatch.  A turn routes a trivial message to a
\* worker at most once.
C3_TrivialDispatchedOnce ==
    \A r \in Req : Count(log[r], LAMBDA e : e.ev = "trivial") <= 1

\* the last human message of a state was appended by the router
ResumedByRouter(state) ==
    LET msgs == state.messages
        humans == { i \in 1..Len(msgs) : msgs[i].type = "human" }
    IN /\ humans # { }
       /\ msgs[CHOOSE i \in humans : \A j \in humans : j <= i].id[3] = "router"

\* C4: Idempotent resume.  router() on a state with plan_active true, a
\* non-empty routing_plan and no new user message dispatches the head of
\* the plan: it routes to the head's agent, appends the head's sub-query
\* and keeps the tail as the new routing_plan.
C4_ResumeDispatchesHead ==
    (rin.plan_active /\ rin.routing_plan # << >> /\ ResumedByRouter(rin))
    => /\ ret.route = rin.routing_plan[1][1]
       /\ ret.routing_plan = Tail(rin.routing_plan)
       /\ Len(ret.messages) = Len(rin.messages) + 1
       /\ Last(ret.messages).type = "human"
       /\ Last(ret.messages).content = rin.routing_plan[1][2]

\* a sub-query the router appended at position i has a recorded result: a
\* worker's answer follows it before any other human message
Answered(msgs, i) ==
    \E j \in (i + 1)..Len(msgs) :
        /\ msgs[j].type = "ai"
        /\ msgs[j].id[3] \in Workers
        /\ ~msgs[j].tool_calls
        /\ \A k \in (i + 1)..(j - 1) : msgs[k].type # "human"

\* C5: Crash recovery loses no sub-query.  Whenever router() dispatches a
\* sub-query or runs the synthesis, every sub-query dispatched before on
\* the thread has a recorded result.
C5_NoSubqueryLost ==
    \A r \in Req :
        (/\ log[r] # << >>
         /\ Last(log[r]).ev \in {"dispatch", "plan", "synthesis"})
        => \A i \in 1..Len(rin.messages) :
              (rin.messages[i].type = "human" /\ rin.messages[i].id[3] = "router")
              => Answered(rin.messages, i)

\* C6: A new user message restarts at NoPlan.  The first routing decision
\* of a turn is made for the new message: the greeting path, the direct
\* classification of the message or a fresh decomposition of it.
C6_NewMessageRestarts ==
    \A r \in Req :
        log[r] # << >> => log[r][1].ev \in {"greeting", "trivial", "plan", "fallback"}

\* C7: In every state router() returns, and in every state of a run or of
\* the checkpointer, plan_active false implies an empty routing_plan.
C7_InactivePlanIsEmpty ==
    \A s \in {ret, ckpt} \cup { run[r] : r \in Req } :
        ~s.plan_active => s.routing_plan = << >>

\* router() was re-entered while sub-queries were still owed and returned
\* a state without an active plan
C7_Witness ==
    /\ rin.plan_active
    /\ rin.routing_plan # << >>
    /\ ~ret.plan_active
    /\ ret.routing_plan = << >>

\* C8: One worker at a time.  No superstep of a run holds more than one
\* of the worker nodes math, code and research.
C8_OneWorkerAtATime ==
    \A r \in Req : Cardinality(nxt[r] \cap Workers) <= 1

Active(r) == pc[r] \in {"accepted", "stream"}

\* C9: Per-thread sequential execution.  Two requests on the thread are
\* never being served at the same time.
C9_TurnsDoNotOverlap ==
    \A r1, r2 \in Req : (Active(r1) /\ Active(r2)) => r1 = r2

\* C10: Every response stream that has ended, whatever the outcome of the
\* turn, holds exactly one [DONE] frame, which is its last frame.
C10_StreamEndsWithDone ==
    \A r \in Req :
        pc[r] \in {"closed", "raised"}
        => /\ frames[r] # << >>
           /\ Last(frames[r]) = DoneFrame
           /\ Count(frames[r], LAMBDA f : f = DoneFrame) = 1

TypesOf(f) == [i \in 1..Len(f) |-> f[i].type]

\* C11: Stream failure.  A stream holds at most one error frame; the frame
\* that follows an error frame is [DONE] and no token or tool_call frame
\* comes after it; a stream whose run raised (a run of this graph ends in
\* no other way) holds exactly one error frame.
C11_StreamFailure ==
    \A r \in Req :
        LET f == frames[r]
            errs == { i \in 1..Len(f) : f[i].type = "error" }
        IN /\ Cardinality(errs) <= 1
           /\ \A i \in errs : i < Len(f) /\ f[i + 1] = DoneFrame
           /\ \A i \in errs : \A j \in (i + 1)..Len(f) :
                 f[j].type \notin {"token", "tool_call"}
           /\ pc[r] = "closed" => Cardinality(errs) = 1

\* a run that had sent tokens raised, and its stream has ended
C11_Witness ==
    \E r \in Req :
        /\ pc[r] = "closed"
        /\ \E i, j \in 1..Len(frames[r]) :
              i < j /\ frames[r][i].type = "token" /\ frames[r][j].type = "error"

C14_WorkerFailureContained ==
    \A r \in Req :
        \A i \in 1..Len(log[r]) :
            log[r][i].ev = "worker_raised"
            => /\ \A k \in 1..Len(frames[r]) : frames[r][k].type # "error"
               /\ pc[r] # "closed"
               /\ \A j \in 1..Len(ckpt.messages) :
                     (ckpt.messages[j].type = "human" /\ ckpt.messages[j].id[3] = "router")
                     => Answered(ckpt.messages, j)

\* C15: Decomposition failure is recovered locally.  When the decomposer's
\* model call raises, router() returns a state routed to research and the
\* stream gets no error frame.
C15_DecompositionFailureRecovered ==
    \A r \in Req :
        (log[r] # << >> /\ Last(log[r]).ev = "split_raised")
        => /\ ret.route = "research"
           /\ \A k \in 1..Len(frames[r]) : frames[r][k].type # "error"

\* C16: Empty-plan fallback is a single entry.  In a turn in which the
\* decomposer returned no sub-queries, research is dispatched once: the
\* fallback is taken once and the decomposer is asked once.
C16_FallbackOnce ==
    \A r \in Req :
        Count(log[r], LAMBDA e : e.ev = "fallback") >= 1
        => /\ Count(log[r], LAMBDA e : e.ev = "fallback") = 1
           /\ Count(log[r], LAMBDA e : e.ev \in {"fallback", "plan", "split_raised"}) = 1
           /\ Count(log[r], LAMBDA e : e.ev = "worker" /\ e.agent = "research") <= 1

\* the user's message of a request, as its acknowledgement frame carries it
UserMessage(r) == frames[r][2].content

Served(r) == Len(frames[r]) >= 3 /\ log[r] # << >>

\* C17: Greeting fast path.  In a turn whose user message matches the
\* greeting pattern the only step is one router() call: it appends the
\* canned reply and nothing else, returns route __end__, plan_active false
\* and empty routing_plan and pending_routes; no decomposition, no
\* classification, no synthesis and no worker step happens.
C17_GreetingFastPath ==
    \A r \in Req :
        (Served(r) /\ IsGreeting(UserMessage(r)))
        => /\ Len(log[r]) = 1
           /\ log[r][1].ev = "greeting"
           /\ planned[r] = << >>
           /\ Len(ret.messages) = Len(rin.messages) + 1
           /\ SubSeq(ret.messages, 1, Len(rin.messages)) = rin.messages
           /\ Last(ret.messages).type = "ai"
           /\ Last(ret.messages).content = GreetingReply(UserMessage(r))
           /\ ret.route = "__end__"
           /\ ~ret.plan_active
           /\ ret.routing_plan = << >>
           /\ ret.pending_routes = << >>

\* a greeting arrived on a thread whose snapshot held an active plan
C17_Witness ==
    \E r \in Req :
        /\ Served(r)
        /\ IsGreeting(UserMessage(r))
        /\ rin.plan_active
        /\ Len(rin.messages) > 1
        /\ pc[r] = "closed"

\* C18: Trivial bypass never plans.  In a turn whose user message is a
\* single token (and no greeting) router() never asks the decomposer and
\* never returns a routing_plan of more than one entry, and what the first
\* routing decision routes is the message itself, to the agent picked for it.
C18_TrivialNeverPlans ==
    \A r \in Req :
        (Served(r) /\ Len(Split(UserMessage(r))) = 1 /\ ~IsGreeting(UserMessage(r)))
        => /\ \A i \in 1..Len(log[r]) :
                 log[r][i].ev \notin {"plan", "fallback", "split_raised"}
           /\ Len(ret.routing_plan) <= 1
           /\ log[r][1].ev = "trivial"
           /\ log[r][1].text = UserMessage(r)
           /\ log[r][1].agent = pick_agent_for_subquery(UserMessage(r))

\* C19: New thread creation.  A chat request with thread_id = None and a
\* label does not raise, persists exactly one new row, that row holds the
\* caller's session, the label and a thread id no row named before, every
\* other row is as it was, and the threadId of the metadata frame is the
\* thread id of the new row.
C19_NewThreadCreation ==
    (last.op = "chat" /\ last.thread = None)
    => /\ ~last.raised
       /\ last.before \subseteq store
       /\ Cardinality(store \ last.before) = 1
       /\ \A row \in store \ last.before :
             /\ row.session_id = last.session
             /\ row.thread_label = last.label
             /\ \A old \in last.before : old.thread_id # row.thread_id /\ old.id # row.id
             /\ Len(last.frames) = 1
             /\ last.frames[1].threadId = row.thread_id
             /\ last.frames[1].userId = last.session

\* a second thread was created while the table held another session's row
C19_Witness ==
    /\ last.op = "chat"
    /\ last.thread = None
    /\ \E old \in last.before : old.session_id # last.session
    /\ Cardinality(store) = 2

\* C20: Renaming a thread under a session that has no row for it returns
\* affected = 0, does not raise and leaves every row of the table as it
\* was, the row of the thread's owner included.
C20_RenameNotOwned ==
    (/\ last.op = "rename"
     /\ get_by_session_and_thread(last.before, last.session, last.thread) = { })
    => /\ last.affected = 0
       /\ ~last.raised
       /\ store = last.before

\* a session asked to rename a thread that another session owns, giving a
\* label the owner's row does not have
C20_Witness ==
    /\ last.op = "rename"
    /\ get_by_session_and_thread(last.before, last.session, last.thread) = { }
    /\ \E row \in store :
          /\ row.thread_id = last.thread
          /\ row.session_id # last.session
          /\ row.thread_label # last.label

\* the last operation named a thread the caller's session has no row for
NamedForeignThread ==
    /\ last.thread # None
    /\ \A row \in last.before :
          ~(row.session_id = last.session /\ row.thread_id = last.thread)

\* C21: Session isolation on NotFound.  A chat or get-thread request that
\* names a thread the caller's session has no row for raises, sends no
\* frame, asks the checkpointer for no snapshot and leaves the table as it
\* was; a chat request that raised has run no router or worker step.
C21_NotFoundIsolation ==
    /\ (last.op \in {"chat", "get"} /\ NamedForeignThread)
       => /\ last.raised
          /\ last.frames = << >>
          /\ last.read = None
          /\ store = last.before
    /\ \A r \in Req :
          pc[r] = "raised" => frames[r] = << >> /\ log[r] = << >> /\ nxt[r] = { }

\* a session named, in a chat or get-thread request, a thread that
\* another session owns
C21_Witness ==
    /\ last.op \in {"chat", "get"}
    /\ NamedForeignThread
    /\ \E row \in store : row.thread_id = last.thread /\ row.session_id # last.session

\* C22: The table holds at most one row for each (session_id, thread_id)
\* pair, whatever operations were made.
C22_UniquePair ==
    \A a, b \in store :
        (a.session_id = b.session_id /\ a.thread_id = b.thread_id) => a = b

\* save was called for a pair that had a row, with another label
C22_Witness ==
    /\ last.op = "save"
    /\ \E row \in last.before :
          /\ row.session_id = last.session
          /\ row.thread_id = last.thread
          /\ row.thread_label # last.label


\* messages that are not among the given ones
NotAmong(m, messages) == \A i \in 1..Len(messages) : messages[i] # m

\* C23: Summarization in a turn.  Whenever the thread history with the new
\* user message has more than 6 messages, the history handed to the graph is
\* one synthetic summary entry followed by exactly the last 3 messages,
\* verbatim and in their order.
C23_SummarizedTurn ==
    (call.op = "chat" /\ Len(call.in) > SUMMARY_THRESHOLD)
    => /\ ~call.raised
       /\ Len(call.out) = RECENT_KEPT + 1
       /\ NotAmong(call.out[1], call.in)
       /\ Tail(call.out) = Recent(call.in)

\* C24: summarize_messages threshold.  A list of at most 6 messages is
\* returned unchanged with an empty summary and without a model call; of a
\* longer list exactly the last 3 messages are returned, in order, and
\* exactly the messages before them are what the summarization call is
\* given.
C24_SummarizeThreshold ==
    call.op = "summarize"
    => /\ Len(call.in) <= SUMMARY_THRESHOLD
          => /\ call.out = call.in
             /\ call.summary = ""
             /\ call.calls = 0
       /\ Len(call.in) > SUMMARY_THRESHOLD
          => /\ Len(call.out) = RECENT_KEPT
             /\ \A i \in 1..RECENT_KEPT :
                   call.out[i] = call.in[Len(call.in) - RECENT_KEPT + i]
             /\ call.calls <= 1
             /\ call.calls = 1
                => /\ Len(call.sent) = Len(call.in) - RECENT_KEPT
                   /\ \A i \in 1..Len(call.sent) :
                         call.sent[i] = <<call.in[i].type, call.in[i].content>>

C24_Witness ==
    /\ call.op = "summarize"
    /\ Len(call.in) = SUMMARY_THRESHOLD + 1
    /\ call.calls = 1
    /\ call.summary = "recap"

\* C25: Summarizer failure never blocks the turn.  If obtaining the
\* summarization model or the summarization call fails on a history longer
\* than the threshold, the turn continues with exactly the last 3 messages
\* and an empty summary, and the caller still receives the metadata frame.
C25_SummarizerFailureContinues ==
    (/\ call.op = "chat"
     /\ Len(call.in) > SUMMARY_THRESHOLD
     /\ call.llm.kind # "ok")
    => /\ ~call.raised
       /\ call.out = Recent(call.in)
       /\ call.frames # << >>
       /\ call.frames[1] = MetaFrame


\* the classification as the claim words it
HasCodeKeyword(q) ==
    \E i \in 1..Len(q), kw \in CodeKeywords : kw \in KeywordsIn(Lower(q[i]))

HasNumberOperatorNumber(q) ==
    \/ \E i \in 1..Len(q) : q[i] = "3*4"
    \/ \E i \in 1..Len(q) :
          /\ i + 2 <= Len(q)
          /\ {q[i], q[i + 2]} \subseteq Numbers
          /\ q[i + 1] \in Operators

\* C26: Classifier result.  pick_agent_for_subquery(q) returns code if q
\* contains a code keyword in any case, otherwise math if q contains a
\* number, an arithmetic operator and a number, otherwise research; and on a
\* fresh thread whose decomposition yields the query itself, the route
\* router() chooses is that classification.
C26_ClassifierResult ==
    /\ call.op = "classify"
       => /\ HasCodeKeyword(call.q) => call.result = "code"
          /\ (~HasCodeKeyword(call.q) /\ HasNumberOperatorNumber(call.q))
             => call.result = "math"
          /\ (~HasCodeKeyword(call.q) /\ ~HasNumberOperatorNumber(call.q))
             => call.result = "research"
    /\ (call.op = "route" /\ call.branch \in {"plan", "trivial"})
       => call.result = (IF HasCodeKeyword(call.q) THEN "code"
                         ELSE IF HasNumberOperatorNumber(call.q) THEN "math"
                         ELSE "research")

\* a programming request that also holds arithmetic, written with a capital
C26_Witness ==
    /\ call.op = "route"
    /\ call.branch = "plan"
    /\ call.q = <<"Python", "3*4">>
    /\ call.result = "code"

\* C27: Classifier determinism across the cache.  Whatever calls, clock
\* advances, expiries and sweeps come between them, all calls of
\* pick_agent_for_subquery on one sub-query return the same capability: a
\* hit, a miss and a recomputation after eviction agree.
C27_ClassifierDeterminism ==
    /\ \A a, b \in Returned : a[1] = b[1] => a[2] = b[2]
    /\ \A a \in Returned : a[2] \in Workers

\* the sub-query was classified before, its entry has been swept away, and
\* it is classified again
C27_Witness ==
    /\ call.op = "pick"
    /\ call.known
    /\ call.swept
    /\ ~call.hit
    /\ CacheKey("agent", call.q) \notin DOMAIN call.after_sweep

\* the age of an entry at time t, and the time an entry of a kind lives
Age(entry, t) == t - entry.timestamp
TTL(key) == IF key[1] = "split" THEN SPLIT_TTL ELSE AGENT_TTL

\* C28 as stated: a sweep runs only on a cache access made after the sweep
\* interval has elapsed since the previous sweep, and immediately after a
\* sweep the cache holds no entry whose age exceeds its TTL.
C28_SweepPurgesExpired ==
    (call.op \in {"pick", "split"} /\ call.swept)
    => /\ call.since > SWEEP_INTERVAL
       /\ \A k \in DOMAIN call.after_sweep :
             ~(Age(call.after_sweep[k], call.at) > TTL(k))

\* C28: a sweep runs only on a cache access made after the sweep interval
\* (600 s) has elapsed since the previous sweep, and immediately after a
\* sweep the cache holds no entry older than 900 s.
C28_SweepPurgesOld ==
    (call.op \in {"pick", "split"} /\ call.swept)
    => /\ call.since > SWEEP_INTERVAL
       /\ \A k \in DOMAIN call.after_sweep :
             ~(Age(call.after_sweep[k], call.at) > SWEEP_MAX_AGE)

\* a sweep has removed one entry and left a younger one
C28_Witness ==
    /\ call.op \in {"pick", "split"}
    /\ call.swept
    /\ DOMAIN call.after_sweep # { }
    /\ \E k \in {CacheKey("agent", q) : q \in CacheQs} \cup
                  {CacheKey("split", <<"3", "x", "4">>)} :
          /\ k \notin DOMAIN call.after_sweep
          /\ k # CacheKey(IF call.op = "pick" THEN "agent" ELSE "split", call.q)


\* the request whose router call was the synthesis of the final response
Synthesizing(r) == log[r] # << >> /\ Last(log[r]).ev = "synthesis"

\* the answers the workers gave in turn t, as the history holds them
WorkerResults(history, t) ==
    LET isResult(m) == /\ m.type \in {"ai", "tool"}
                       /\ m.content # Blank
                       /\ m.id[1] = t
                       /\ m.id[3] \in Workers \cup {"tools"}
    IN SelectSeq(history, isResult)

\* C29: Synthesis input.  When the plan is exhausted, the input of the final
\* synthesis is the user's query of the current turn with the results of
\* exactly the sub-queries dispatched in this turn, in dispatch order:
\* nothing of an earlier turn is in it and no worker result of this turn is
\* left out.
C29_SynthesisInput ==
    \A r \in Req :
        Synthesizing(r)
        => LET input == SynthesisInput(rin)
           IN /\ input[1].type = "human"
              /\ input[1].id = <<turnNo[r], 0, "user", 1>>
              /\ Tail(input) = WorkerResults(rin.messages, turnNo[r])

\* C30: In every state router() returns, pending_routes is the sequence of
\* the capabilities of routing_plan, entry by entry and in the same order.
C30_PendingIsPlanProjection ==
    /\ ret.pending_routes = Agents(ret.routing_plan)
    /\ ret.pending_routes = << >> <=> ret.routing_plan = << >>

\* router() has dispatched the head of a plan and sub-queries remain
C30_Witness ==
    /\ ret.routing_plan # << >>
    /\ ret.plan_active
    /\ ret.route \in Workers
    /\ ret.pending_routes = Agents(ret.routing_plan)


\* C31: Completed-work records stay parallel.  After any sequence of
\* worker-node steps done_queries and subquery_results have the same
\* length, the i-th result is the output produced for the i-th done query,
\* every done query is a key of routes, and no query is twice in
\* done_queries.
C31_DoneAndResultsParallel ==
    LET done == nodeState.done_queries
        results == nodeState.subquery_results
    IN /\ Len(done) = Len(results)
       /\ \A i \in 1..Len(done) :
             /\ i <= Len(results) => results[i].of = done[i]
             /\ \E k \in 1..Len(nodeState.routes) : nodeState.routes[k][1] = done[i]
       /\ \A i, j \in 1..Len(done) : done[i] = done[j] => i = j

\* both nodes have processed a query, the research node after the math node
C31_Witness ==
    /\ Len(nodeState.done_queries) >= 2
    /\ Len(nodeState.subquery_results) = Len(nodeState.done_queries)
    /\ \E i, j \in 1..Len(nodeState.routes) :
          /\ nodeState.routes[i] = <<nodeState.done_queries[1], "math">>
          /\ nodeState.routes[j] = <<nodeState.done_queries[2], "research">>


IsPrefix(a, b) == Len(a) <= Len(b) /\ SubSeq(b, 1, Len(a)) = a

\* b begins with the messages of a, each as it was or with its text stripped
IsStrippedPrefix(a, b) ==
    /\ Len(a) <= Len(b)
    /\ \A i \in 1..Len(a) :
          \/ b[i] = a[i]
          \/ b[i] = [a[i] EXCEPT !.content = Strip(@)]

\* C32 as stated: after every step of a turn the thread's messages have the
\* messages before the step as a prefix; no message is removed, reordered
\* or has its content replaced.
C32_AppendOnly == [][IsPrefix(ckpt.messages, ckpt'.messages)]_vars

\* C32: after every step of a turn the thread's messages begin with the
\* messages before the step, in their order and with their ids, types and
\* tool calls; the content of an existing message is the same or is that
\* content with the whitespace around it stripped.
C32_AppendOnlyUpToStrip == [][IsStrippedPrefix(ckpt.messages, ckpt'.messages)]_vars

\* a worker step has stored the user's message without its trailing blank
C32_Witness ==
    \E r \in Req :
        /\ Served(r)
        /\ UserMessage(r) # Strip(UserMessage(r))
        /\ \E i \in 1..Len(ckpt.messages) :
              /\ ckpt.messages[i].id = <<turnNo[r], 0, "user", 1>>
              /\ ckpt.messages[i].content = Strip(UserMessage(r))


\* the row of the pair the last operation named, in a table
RowOf(rows) ==
    { r \in rows : r.session_id = last.session /\ r.thread_id = last.thread }

\* C33: save is idempotent on an existing pair.  A save for a (session_id,
\* thread_id) that already has a record leaves that record's id,
\* thread_label and created_at unchanged, creates no second record, and
\* returns the stored record, not the arguments it was passed.
C33_SaveIdempotent ==
    (last.op = "save" /\ RowOf(last.before) # { })
    => /\ store = last.before
       /\ RowOf(store) = RowOf(last.before)
       /\ Cardinality(RowOf(store)) = 1
       /\ last.returned \in RowOf(last.before)

\* a save at a later time and with another label for a pair that has a row
C33_Witness ==
    /\ last.op = "save"
    /\ \E r \in RowOf(last.before) :
          /\ r.thread_label # last.label
          /\ r.created_at < now
          /\ last.returned = r

\* C34: Rename changes only the label.  A rename_thread_label call that
\* matches a record returns 1 and changes only that record's thread_label;
\* its id, session_id, thread_id and created_at, and every other record of
\* the store, are unchanged.
C34_RenameOnlyLabel ==
    (last.op = "rename" /\ RowOf(last.before) # { })
    => /\ last.affected = 1
       /\ store = (last.before \ RowOf(last.before))
                  \cup { [r EXCEPT !.thread_label = last.label] : r \in RowOf(last.before) }

\* a rename at a later time that changed the label, beside another row
C34_Witness ==
    /\ last.op = "rename"
    /\ last.affected = 1
    /\ \E r \in RowOf(last.before) : r.thread_label # last.label /\ r.created_at < now
    /\ \E r \in store : r.session_id # last.session


\* C35: Thread-label validation.  Every ChatRequest that passes validation
\* has a thread_label that is non-empty, has no whitespace before or after
\* it and holds at most 10 words (followed by "..." exactly when the input
\* had more than 10 words); a request whose label is missing, empty or
\* blank is rejected.
C35_LabelValidation ==
    call.op = "validated"
    => /\ ~call.rejected
          => /\ call.text # << >>
             /\ Strip(call.text) = call.text
             /\ Len(Split(call.text)) <= LABEL_WORDS
             /\ call.ellipsis <=> Len(Split(call.v)) > LABEL_WORDS
       /\ (call.v = Missing \/ Split(call.v) = << >>) => call.rejected

\* the words of a sequence of frames, in the order of the frames
RECURSIVE FrameWords(_)
FrameWords(fs) ==
    IF fs = << >> THEN << >> ELSE Head(fs).content \o FrameWords(Tail(fs))

\* C40: Token chunking is lossless.  For every non-blank content that is
\* streamed, each token frame holds between 1 and 10 words, every frame but
\* the last holds exactly 10, and the words of the frames in the order of
\* emission are exactly the whitespace-separated words of the content.
C40_ChunkingLossless ==
    (call.op = "streamed" /\ Split(call.content) # << >>)
    => /\ call.frames # << >>
       /\ \A i \in 1..Len(call.frames) :
             /\ call.frames[i].type = "token"
             /\ Len(call.frames[i].content) \in 1..CHUNK_WORDS
             /\ i < Len(call.frames) => Len(call.frames[i].content) = CHUNK_WORDS
             /\ \A k \in 1..Len(call.frames[i].content) :
                   call.frames[i].content[k] # Pad
       /\ FrameWords(call.frames) = Split(call.content)

\* a content of more than 20 words with whitespace around and inside it,
\* sent in three frames
C40_Witness ==
    /\ call.op = "streamed"
    /\ Len(call.frames) = 3
    /\ Len(call.content) > Len(Split(call.content)) + 2
    /\ Len(call.frames[3].content) < CHUNK_WORDS


\* the key of the call whose record is r
CallKey(r) == CacheKey(IF r.op = "pick" THEN "agent" ELSE "split", r.q)

\* C36: Cache freshness.  pick_agent_for_subquery never returns a cached
\* value whose age is 600 seconds or more, and llm_split_query never one
\* whose age is 300 seconds or more: a call that finds its entry expired or
\* missing recomputes the value and stores it with the current time as its
\* timestamp.
C36_CacheFreshness ==
    [][ (now' = now /\ call'.op \in {"pick", "split"})
        => LET key == CallKey(call')
           IN (key \notin DOMAIN cache \/ Age(cache[key], now) >= TTL(key))
              => /\ ~call'.hit
                 /\ key \in DOMAIN cache'
                 /\ cache'[key] = [value |-> call'.result, timestamp |-> now]
                 /\ call'.op = "pick"
                    => call'.result = pick_agent_for_subquery(call'.q) ]_vars

\* a call has found its entry at exactly the age at which it expires, and has
\* stored a new one
C36_Witness ==
    /\ call.op \in {"pick", "split"}
    /\ ~call.hit
    /\ CallKey(call) \in DOMAIN call.after_sweep
    /\ Age(call.after_sweep[CallKey(call)], call.at) = TTL(CallKey(call))
    /\ cache[CallKey(call)].timestamp = call.at


\* the request has sent a frame of that type
HasFrame(r, type) == \E i \in 1..Len(frames[r]) : frames[r][i].type = type

\* C37: Routing table is total.  Every route value that router() returns
\* (math, code, research, and the terminal sentinel "__end__") has a
\* destination in the conditional edge from the router node, and the
\* terminal sentinel leads to the end of the graph run rather than to a
\* failure.
C37_RoutingTableTotal ==
    \A r \in Req :
        \A i \in 1..Len(log[r]) :
            IsRouterEvent(log[r][i])
            => /\ log[r][i].to \in (DOMAIN RouterPathMap) \cup {"__end__"}
               /\ (log[r][i].to = "__end__" /\ i = Len(log[r]) /\ pc[r] = "closed")
                  => ~HasFrame(r, "error")

\* the greeting fast path of a turn is taken before any sub-query is handed out
GreetingOnUserMessage(r) ==
    \A i \in 1..Len(log[r]) :
        log[r][i].ev = "greeting"
        => \A j \in 1..(i - 1) : ~IsDispatch(log[r][j])

\* C38: An active plan is never discarded.  The greeting fast path is taken
\* only for a message sent by the user, never for a sub-query that router()
\* itself appended to the messages; while plan_active is true and
\* routing_plan is non-empty, no re-entry of router() empties routing_plan
\* other than by dispatching its entries one by one.
C38_ActivePlanKept ==
    /\ \A r \in Req : GreetingOnUserMessage(r)
    /\ (rin.plan_active /\ rin.routing_plan # << >>
        /\ RouterBranch(rin, << >>) # "fallback")
       => /\ ret.routing_plan = Tail(rin.routing_plan)
          /\ ret.route = rin.routing_plan[1][1]
          /\ Last(ret.messages).type = "human"
          /\ Last(ret.messages).content = rin.routing_plan[1][2]

\* the texts of a turn's human messages as the stream would split them: the
\* user's message and the sub-queries router() appended
HumanTexts(r) ==
    {Split(UserMessage(r))}
    \cup { Split(log[r][i].text) : i \in { j \in 1..Len(log[r]) : IsDispatch(log[r][j]) } }

\* C39: Token frames carry only assistant output.  The content of every
\* token frame is text of a message produced by a worker or by synthesis in
\* the current turn; neither the user's own message nor a sub-query that the
\* router appended to the messages is ever streamed to the client as a
\* token.
C39_TokensAreAssistantOutput ==
    \A r \in Req :
        Served(r)
        => \A i \in 1..Len(frames[r]) :
              frames[r][i].type = "token" => frames[r][i].content \notin HumanTexts(r)

====
